---- MODULE Spec2Model ----
(***************************************************************************)
(* Model of the goroutine manager of weblin (package goroutine):           *)
(* GoroutineManager with its registry of taskWrapper entries, the          *)
(* launched goroutines with their deferred recover/Done wrapper, and       *)
(* WaitGroupWithTimeout with its helper goroutine and deadline timer.      *)
(*                                                                         *)
(* Callers are threads that invoke the exported methods; every method      *)
(* takes gm.mu first and releases it (deferred Unlock) on return.          *)
(***************************************************************************)
EXTENDS Integers, Sequences, FiniteSets, Bags, TLC

\* ------------------------------------------------------------- bounds
\* Calls of the exported methods made in one run, all callers together.
MaxCalls == 4
\* Goroutines launched in one run.
MaxGo == 2

\* A timeout at least this large (seconds) outlasts every finite activity of
\* the goroutines: it is the value the host passes to StopAll.
LargeTimeout == 10

\* Highest starting value of a WaitGroup counter in WaitSpec.
MaxCount == 2

Callers == {1, 2}
Names == {"a", "b"}
Methods == {"AddTask", "RemoveTask", "StartAll", "StopAll", "Start", "Stop"}
\* What one run of a registered work function does with its context:
\*   instant: returns at once, never looks at the context
\*   loop:    returns only after it has seen ctx.Done() closed
\*   ignore:  never looks at the context, returns only when made to from outside
\*   panic:   panics
Kinds == {"instant", "loop", "ignore", "panic"}
Timeouts == {-1, 0, LargeTimeout}

VARIABLES
    mu,            \* gm.mu: 0 when free, else the caller that holds it
    parentWG,      \* gm.parentWG counter
    parentDone,    \* gm.parentCtx.Done() is closed
    tasks,         \* gm.tasks: name -> index into ents, 0 when absent
    ents,          \* every taskWrapper ever created (orphaned ones included)
    gs,            \* bag of the goroutines launched by Start/StartAll; a record holds the
                   \* entry it runs, what its work function does, where it is, and how
                   \* often it has called the handler and each Done so far
    pc, op, res,   \* per caller: position, current call, returned error
    sel,           \* per caller: WaitGroupWithTimeout's helper, done channel, timer
    leaked,        \* bag of WaitGroups: one copy per helper goroutine a timed-out wait left behind
    calls,         \* calls made so far
    crashed,       \* an unrecovered panic has ended the process
    host           \* the host's start(): where it is, and whether sigChan holds a signal

vars == <<mu, parentWG, parentDone, tasks, ents, gs, pc, op, res,
          sel, leaked, calls, crashed, host>>

\* ------------------------------------------------------------- helpers
\* op[c].cnt0 is the counter of the awaited WaitGroup when the wait began.
NoOp ==
    [fn |-> "none", name |-> "", tmo |-> 0, ent |-> 0, cnt0 |-> 0, wres |-> "none",
     todo |-> {}]
NoSel == [helper |-> FALSE, done |-> FALSE, timer |-> "off"]
\* The manager used without the host's start().
NoHost == [pc |-> "none", sig |-> "none", got |-> "none"]

\* The WaitGroup a wait of caller c is on: 0 is gm.parentWG, e > 0 is ents[e].childWG.
Barrier(c) == IF op[c].fn = "StopAll" THEN 0 ELSE op[c].ent

Count(b) == IF b = 0 THEN parentWG ELSE ents[b].wg

Leaked(b) == CopiesIn(b, leaked)

One(r) == SetToBag({r})

\* Goroutines that calls already under way may still launch.
GoNeed(c) ==
    CASE pc[c] = "lock" /\ op[c].fn = "StartAll" -> Cardinality(Names)
      [] pc[c] = "lock" /\ op[c].fn = "Start" -> 1
      [] pc[c] = "add" -> Cardinality(op[c].todo)
      [] pc[c] = "go" -> Cardinality(op[c].todo) + 1
      [] OTHER -> 0

RECURSIVE SumGoNeed(_)
SumGoNeed(S) ==
    IF S = {} THEN 0
    ELSE LET c == CHOOSE x \in S : TRUE IN GoNeed(c) + SumGoNeed(S \ {c})

FnNeedGo(f) == CASE f = "StartAll" -> Cardinality(Names) [] f = "Start" -> 1 [] OTHER -> 0

HasRoom(f) == BagCardinality(gs) + SumGoNeed(Callers) + FnNeedGo(f) <= MaxGo

\* ------------------------------------------------------------- contexts
\* Mutant: the task context is derived from context.Background(), not from
\* gm.parentCtx.
NewChildCtxDetached == [done |-> FALSE, par |-> "background"]

\* Mutant: a context derived from the parent starts not canceled even when the
\* parent is canceled already.
NewChildCtxFresh == [done |-> FALSE, par |-> "parentCtx"]

\* context.WithCancel(gm.parentCtx): a child of the parent context; a child
\* of an already canceled parent is canceled from the start.
NewChildCtx == [done |-> parentDone, par |-> "parentCtx"]

\* Mutant: the new entry's childWG already counts one goroutine.
NewTaskCounted ==
    [wg |-> 1, done |-> NewChildCtx.done, par |-> NewChildCtx.par, own |-> FALSE]

\* &taskWrapper{childCtx, childCancel, task}: childWG starts at zero.
NewTask ==
    [wg |-> 0, done |-> NewChildCtx.done, par |-> NewChildCtx.par, own |-> FALSE]

\* Mutant: a second call of the cancel function reopens the context.
ChildCancelToggle(es, e) == [es EXCEPT ![e].done = ~es[e].done, ![e].own = TRUE]

\* t.childCancel(): closes the task's own Done channel; idempotent.
ChildCancel(es, e) == [es EXCEPT ![e].done = TRUE, ![e].own = TRUE]

\* gm.parentCancel(): closes the parent's Done channel and that of every
\* context derived from it.
ParentCancel(es) ==
    [e \in DOMAIN es |->
        IF es[e].par = "parentCtx" THEN [es[e] EXCEPT !.done = TRUE] ELSE es[e]]

\* ------------------------------------------------------------- Init
\* NewGoroutineManager(): fresh parent context, empty registry, no handler.
Init ==
    /\ mu = 0
    /\ parentWG = 0
    /\ parentDone = FALSE
    /\ tasks = [n \in Names |-> 0]
    /\ ents = <<>>
    /\ gs = EmptyBag
    /\ pc = [c \in Callers |-> "idle"]
    /\ op = [c \in Callers |-> NoOp]
    /\ res = [c \in Callers |-> "none"]
    /\ sel = [c \in Callers |-> NoSel]
    /\ leaked = EmptyBag
    /\ calls = 0
    /\ crashed = FALSE
    /\ host = NoHost

\* ------------------------------------------------------------- callers
\* A thread calls an exported method and arrives at gm.mu.Lock().
Call(c, f) ==
    /\ pc[c] = "idle"
    /\ calls < MaxCalls
    /\ HasRoom(f)
    /\ calls' = calls + 1
    /\ pc' = [pc EXCEPT ![c] = "lock"]
    /\ op' = [op EXCEPT ![c] = [NoOp EXCEPT !.fn = f]]
    /\ UNCHANGED <<mu, parentWG, parentDone, tasks, ents, gs, res, sel,
                   leaked, crashed>>

\* Mutant: the method goes on without waiting for gm.mu to be free.
LocksNoMutex(c, f) == pc[c] = "lock" /\ op[c].fn = f /\ mu' = c

\* gm.mu.Lock() succeeds for a call of method f.
Locks(c, f) == pc[c] = "lock" /\ op[c].fn = f /\ mu = 0 /\ mu' = c

\* WaitGroupWithTimeout(wg, t) up to the point where the caller blocks:
\* wg.Wait() itself when t < 0, else the helper goroutine is started and the
\* select with time.After(t) is entered.
EnterWait(c, t) ==
    IF t < 0
    THEN pc' = [pc EXCEPT ![c] = "wgwait"] /\ sel' = sel
    ELSE /\ pc' = [pc EXCEPT ![c] = "select"]
         /\ sel' = [sel EXCEPT ![c] = [helper |-> TRUE, done |-> FALSE, timer |-> "armed"]]

\* Mutant: AddTask cancels the context of the entry it replaces.
AddTaskCancelOld(c) ==
    /\ Locks(c, "AddTask")
    /\ \E n \in Names :
          /\ ents' = Append(IF tasks[n] = 0 THEN ents ELSE ChildCancel(ents, tasks[n]),
                            NewTask)
          /\ tasks' = [tasks EXCEPT ![n] = Len(ents) + 1]
          /\ op' = [op EXCEPT ![c].name = n, ![c].ent = Len(ents) + 1]
    /\ pc' = [pc EXCEPT ![c] = "ret"]
    /\ res' = [res EXCEPT ![c] = "nil"]
    /\ UNCHANGED <<parentWG, parentDone, gs, sel, leaked, calls, crashed>>

AddTask(c) ==
    /\ Locks(c, "AddTask")
    /\ \E n \in Names :
          /\ ents' = Append(ents, NewTask)
          /\ tasks' = [tasks EXCEPT ![n] = Len(ents) + 1]
          /\ op' = [op EXCEPT ![c].name = n, ![c].ent = Len(ents) + 1]
    /\ pc' = [pc EXCEPT ![c] = "ret"]
    /\ res' = [res EXCEPT ![c] = "nil"]
    /\ UNCHANGED <<parentWG, parentDone, gs, sel, leaked, calls, crashed>>

\* Mutant: RemoveTask reports an unknown name as an error, the way Start does.
RemoveTaskStrict(c) ==
    /\ Locks(c, "RemoveTask")
    /\ \E n \in Names, t \in Timeouts :
          IF tasks[n] = 0
          THEN /\ op' = [op EXCEPT ![c].name = n, ![c].tmo = t]
               /\ pc' = [pc EXCEPT ![c] = "ret"]
               /\ res' = [res EXCEPT ![c] = "notfound"]
               /\ UNCHANGED <<ents, sel>>
          ELSE /\ op' = [op EXCEPT ![c].name = n, ![c].tmo = t, ![c].ent = tasks[n],
                                   ![c].cnt0 = ents[tasks[n]].wg]
               /\ ents' = ChildCancel(ents, tasks[n])
               /\ EnterWait(c, t)
               /\ res' = res
    /\ UNCHANGED <<parentWG, parentDone, tasks, gs, leaked, calls, crashed>>

RemoveTask(c) ==
    /\ Locks(c, "RemoveTask")
    /\ \E n \in Names, t \in Timeouts :
          IF tasks[n] = 0
          THEN /\ op' = [op EXCEPT ![c].name = n, ![c].tmo = t]
               /\ pc' = [pc EXCEPT ![c] = "ret"]
               /\ res' = [res EXCEPT ![c] = "nil"]
               /\ UNCHANGED <<ents, sel>>
          ELSE /\ op' = [op EXCEPT ![c].name = n, ![c].tmo = t, ![c].ent = tasks[n],
                                   ![c].cnt0 = ents[tasks[n]].wg]
               /\ ents' = ChildCancel(ents, tasks[n])
               /\ EnterWait(c, t)
               /\ res' = res
    /\ UNCHANGED <<parentWG, parentDone, tasks, gs, leaked, calls, crashed>>

\* Mutant: Stop cancels through gm.parentCancel instead of t.childCancel.
StopCancelsParent(c) ==
    /\ Locks(c, "Stop")
    /\ \E n \in Names, t \in Timeouts :
          IF tasks[n] = 0
          THEN /\ op' = [op EXCEPT ![c].name = n, ![c].tmo = t]
               /\ pc' = [pc EXCEPT ![c] = "ret"]
               /\ res' = [res EXCEPT ![c] = "nil"]
               /\ UNCHANGED <<ents, sel, parentDone>>
          ELSE /\ op' = [op EXCEPT ![c].name = n, ![c].tmo = t, ![c].ent = tasks[n],
                                   ![c].cnt0 = ents[tasks[n]].wg]
               /\ ents' = ParentCancel(ents)
               /\ parentDone' = TRUE
               /\ EnterWait(c, t)
               /\ res' = res
    /\ UNCHANGED <<parentWG, tasks, gs, leaked, calls, crashed>>

Stop(c) ==
    /\ Locks(c, "Stop")
    /\ \E n \in Names, t \in Timeouts :
          IF tasks[n] = 0
          THEN /\ op' = [op EXCEPT ![c].name = n, ![c].tmo = t]
               /\ pc' = [pc EXCEPT ![c] = "ret"]
               /\ res' = [res EXCEPT ![c] = "nil"]
               /\ UNCHANGED <<ents, sel>>
          ELSE /\ op' = [op EXCEPT ![c].name = n, ![c].tmo = t, ![c].ent = tasks[n],
                                   ![c].cnt0 = ents[tasks[n]].wg]
               /\ ents' = ChildCancel(ents, tasks[n])
               /\ EnterWait(c, t)
               /\ res' = res
    /\ UNCHANGED <<parentWG, parentDone, tasks, gs, leaked, calls, crashed>>

StopAll(c) ==
    /\ Locks(c, "StopAll")
    /\ \E t \in Timeouts :
          /\ op' = [op EXCEPT ![c].tmo = t, ![c].cnt0 = parentWG]
          /\ EnterWait(c, t)
    /\ parentDone' = TRUE
    /\ ents' = ParentCancel(ents)
    /\ UNCHANGED <<parentWG, tasks, gs, res, leaked, calls, crashed>>

\* for _, t := range gm.tasks: the entries still to be launched.
StartAll(c) ==
    /\ Locks(c, "StartAll")
    /\ LET todo == {tasks[n] : n \in Names} \ {0} IN
          /\ op' = [op EXCEPT ![c].todo = todo]
          /\ IF todo = {}
             THEN pc' = [pc EXCEPT ![c] = "ret"] /\ res' = [res EXCEPT ![c] = "nil"]
             ELSE pc' = [pc EXCEPT ![c] = "add"] /\ res' = res
    /\ UNCHANGED <<parentWG, parentDone, tasks, ents, gs, sel, leaked,
                   calls, crashed>>

\* Mutant: Start treats an unknown name the way Stop does and returns nil.
StartLenient(c) ==
    /\ Locks(c, "Start")
    /\ \E n \in Names :
          IF tasks[n] = 0
          THEN /\ op' = [op EXCEPT ![c].name = n]
               /\ pc' = [pc EXCEPT ![c] = "ret"]
               /\ res' = [res EXCEPT ![c] = "nil"]
          ELSE /\ op' = [op EXCEPT ![c].name = n, ![c].todo = {tasks[n]}]
               /\ pc' = [pc EXCEPT ![c] = "add"]
               /\ res' = res
    /\ UNCHANGED <<parentWG, parentDone, tasks, ents, gs, sel, leaked,
                   calls, crashed>>

Start(c) ==
    /\ Locks(c, "Start")
    /\ \E n \in Names :
          IF tasks[n] = 0
          THEN /\ op' = [op EXCEPT ![c].name = n]
               /\ pc' = [pc EXCEPT ![c] = "ret"]
               /\ res' = [res EXCEPT ![c] = "notfound"]
          ELSE /\ op' = [op EXCEPT ![c].name = n, ![c].todo = {tasks[n]}]
               /\ pc' = [pc EXCEPT ![c] = "add"]
               /\ res' = res
    /\ UNCHANGED <<parentWG, parentDone, tasks, ents, gs, sel, leaked,
                   calls, crashed>>

\* Mutant: t.childWG.Add(1) is left out of the launch.
LaunchAddNoChild(c) ==
    /\ pc[c] = "add"
    /\ \E e \in op[c].todo :
          op' = [op EXCEPT ![c].ent = e, ![c].todo = op[c].todo \ {e}]
    /\ parentWG' = parentWG + 1
    /\ pc' = [pc EXCEPT ![c] = "go"]
    /\ UNCHANGED <<mu, parentDone, tasks, ents, gs, res, sel, leaked, calls, crashed>>

\* Mutant: a launch waits until the entry has no goroutine outstanding.
LaunchAddWhenIdle(c) ==
    /\ pc[c] = "add"
    /\ \E e \in op[c].todo :
          /\ ents[e].wg = 0
          /\ op' = [op EXCEPT ![c].ent = e, ![c].todo = op[c].todo \ {e}]
          /\ ents' = [ents EXCEPT ![e].wg = @ + 1]
    /\ parentWG' = parentWG + 1
    /\ pc' = [pc EXCEPT ![c] = "go"]
    /\ UNCHANGED <<mu, parentDone, tasks, gs, res, sel, leaked, calls,
                   crashed>>

\* Mutant: Start counts its goroutine in t.childWG only, not in gm.parentWG.
LaunchAddStartNoParent(c) ==
    /\ pc[c] = "add"
    /\ \E e \in op[c].todo :
          /\ op' = [op EXCEPT ![c].ent = e, ![c].todo = op[c].todo \ {e}]
          /\ ents' = [ents EXCEPT ![e].wg = @ + 1]
    /\ parentWG' = IF op[c].fn = "Start" THEN parentWG ELSE parentWG + 1
    /\ pc' = [pc EXCEPT ![c] = "go"]
    /\ UNCHANGED <<mu, parentDone, tasks, gs, res, sel, leaked, calls,
                   crashed>>

\* Mutant: a launch gives the entry a fresh context first.
LaunchAddFreshCtx(c) ==
    /\ pc[c] = "add"
    /\ \E e \in op[c].todo :
          /\ op' = [op EXCEPT ![c].ent = e, ![c].todo = op[c].todo \ {e}]
          /\ ents' = [ents EXCEPT ![e].wg = @ + 1, ![e].done = parentDone,
                                  ![e].own = FALSE]
    /\ parentWG' = parentWG + 1
    /\ pc' = [pc EXCEPT ![c] = "go"]
    /\ UNCHANGED <<mu, parentDone, tasks, gs, res, sel, leaked, calls,
                   crashed>>

\* gm.parentWG.Add(1); t.childWG.Add(1) for the next entry of the range (or
\* for the one entry of Start).
LaunchAdd(c) ==
    /\ pc[c] = "add"
    /\ \E e \in op[c].todo :
          /\ op' = [op EXCEPT ![c].ent = e, ![c].todo = op[c].todo \ {e}]
          /\ ents' = [ents EXCEPT ![e].wg = @ + 1]
    /\ parentWG' = parentWG + 1
    /\ pc' = [pc EXCEPT ![c] = "go"]
    /\ UNCHANGED <<mu, parentDone, tasks, gs, res, sel, leaked, calls,
                   crashed>>

NewGoroutine(e, k) ==
    [ent |-> e, kind |-> k, phase |-> "run", failed |-> FALSE, hset |-> FALSE,
     hcalls |-> 0, cdec |-> 0, pdec |-> 0]

\* A goroutine that has ended: it leaves nothing behind (the bag keeps it only
\* to count the launches of the run).
Ended ==
    [ent |-> 0, kind |-> "none", phase |-> "exit", failed |-> FALSE, hset |-> FALSE,
     hcalls |-> 0, cdec |-> 0, pdec |-> 0]

\* go func() { defer ...; t.task(t.childCtx) }()
LaunchGo(c) ==
    /\ pc[c] = "go"
    /\ \E k \in Kinds : gs' = gs (+) One(NewGoroutine(op[c].ent, k))
    /\ IF op[c].todo = {}
       THEN pc' = [pc EXCEPT ![c] = "ret"] /\ res' = [res EXCEPT ![c] = "nil"]
       ELSE pc' = [pc EXCEPT ![c] = "add"] /\ res' = res
    /\ UNCHANGED <<mu, parentWG, parentDone, tasks, ents, op, sel,
                   leaked, calls, crashed>>

\* Mutant: the result of the wait is tested the wrong way round.
AfterWaitInverted(c, w) ==
    /\ op' = [op EXCEPT ![c].wres = w]
    /\ pc' = [pc EXCEPT ![c] = "ret"]
    /\ IF w = "WaitSuccess"
       THEN res' = [res EXCEPT ![c] = "timeout"] /\ tasks' = tasks
       ELSE /\ res' = [res EXCEPT ![c] = "nil"]
            /\ tasks' = IF op[c].fn = "RemoveTask"
                        THEN [tasks EXCEPT ![op[c].name] = 0]
                        ELSE tasks

\* Mutant: RemoveTask deletes the entry before it looks at the result.
AfterWaitAlwaysDelete(c, w) ==
    /\ op' = [op EXCEPT ![c].wres = w]
    /\ pc' = [pc EXCEPT ![c] = "ret"]
    /\ res' = [res EXCEPT ![c] = IF w # "WaitSuccess" THEN "timeout" ELSE "nil"]
    /\ tasks' = IF op[c].fn = "RemoveTask"
                THEN [tasks EXCEPT ![op[c].name] = 0]
                ELSE tasks

\* Mutant: a Stop whose wait succeeded deletes the entry as RemoveTask does.
AfterWaitStopDeletes(c, w) ==
    /\ op' = [op EXCEPT ![c].wres = w]
    /\ pc' = [pc EXCEPT ![c] = "ret"]
    /\ IF w # "WaitSuccess"
       THEN res' = [res EXCEPT ![c] = "timeout"] /\ tasks' = tasks
       ELSE /\ res' = [res EXCEPT ![c] = "nil"]
            /\ tasks' = IF op[c].fn \in {"RemoveTask", "Stop"}
                        THEN [tasks EXCEPT ![op[c].name] = 0]
                        ELSE tasks

\* The rest of RemoveTask / Stop / StopAll once WaitGroupWithTimeout returned w.
AfterWait(c, w) ==
    /\ op' = [op EXCEPT ![c].wres = w]
    /\ pc' = [pc EXCEPT ![c] = "ret"]
    /\ IF w # "WaitSuccess"
       THEN res' = [res EXCEPT ![c] = "timeout"] /\ tasks' = tasks
       ELSE /\ res' = [res EXCEPT ![c] = "nil"]
            /\ tasks' = IF op[c].fn = "RemoveTask"
                        THEN [tasks EXCEPT ![op[c].name] = 0]
                        ELSE tasks

\* Mutant: the unbounded wait returns without looking at the counter.
WgWaitNoBlock(c) ==
    /\ pc[c] = "wgwait"
    /\ AfterWait(c, "WaitSuccess")
    /\ UNCHANGED <<mu, parentWG, parentDone, ents, gs, sel, leaked, calls,
                   crashed>>

\* timeout < 0: wg.Wait() returns once the counter is zero.
WgWait(c) ==
    /\ pc[c] = "wgwait"
    /\ Count(Barrier(c)) = 0
    /\ AfterWait(c, "WaitSuccess")
    /\ UNCHANGED <<mu, parentWG, parentDone, ents, gs, sel, leaked, calls,
                   crashed>>

\* Mutant: the helper closes done without waiting for the counter.
HelperCloseEarly(c) ==
    /\ pc[c] = "select"
    /\ sel[c].helper
    /\ sel' = [sel EXCEPT ![c].helper = FALSE, ![c].done = TRUE]
    /\ UNCHANGED <<mu, parentWG, parentDone, tasks, ents, gs, pc, op, res,
                   leaked, calls, crashed>>

\* The helper goroutine: wg.Wait() returns and the deferred close(done) runs.
HelperClose(c) ==
    /\ pc[c] = "select"
    /\ sel[c].helper
    /\ Count(Barrier(c)) = 0
    /\ sel' = [sel EXCEPT ![c].helper = FALSE, ![c].done = TRUE]
    /\ UNCHANGED <<mu, parentWG, parentDone, tasks, ents, gs, pc, op, res,
                   leaked, calls, crashed>>

\* A goroutine can take a step of its own (nothing from outside is needed).
GoEnabled(r) ==
    \/ r.phase \in {"handler", "pdone"}
    \/ /\ r.phase = "run"
       /\ \/ r.kind \in {"instant", "panic"}
          \/ r.kind = "loop" /\ ents[r.ent].done

\* time.After(timeout) can deliver: at any moment for a short timeout; for a
\* large one only when the counter cannot reach zero by the goroutines' own steps.
TimerMayFire(c) ==
    \/ op[c].tmo < LargeTimeout
    \/ Count(Barrier(c)) > 0 /\ \A r \in BagToSet(gs) : ~GoEnabled(r)

TimerFire(c) ==
    /\ pc[c] = "select"
    /\ sel[c].timer = "armed"
    /\ TimerMayFire(c)
    /\ sel' = [sel EXCEPT ![c].timer = "fired"]
    /\ UNCHANGED <<mu, parentWG, parentDone, tasks, ents, gs, pc, op, res,
                   leaked, calls, crashed>>

\* select: case <-done
SelectDone(c) ==
    /\ pc[c] = "select"
    /\ sel[c].done
    /\ AfterWait(c, "WaitSuccess")
    /\ sel' = [sel EXCEPT ![c] = NoSel]
    /\ UNCHANGED <<mu, parentWG, parentDone, ents, gs, leaked, calls, crashed>>

\* Mutant: the timer case of the select returns WaitSuccess.
SelectTimeoutAsSuccess(c) ==
    /\ pc[c] = "select"
    /\ sel[c].timer = "fired"
    /\ AfterWait(c, "WaitSuccess")
    /\ leaked' = IF sel[c].helper
                 THEN leaked (+) SetToBag({Barrier(c)})
                 ELSE leaked
    /\ sel' = [sel EXCEPT ![c] = NoSel]
    /\ UNCHANGED <<mu, parentWG, parentDone, ents, gs, calls, crashed>>

\* select: case <-time.After(timeout); a helper still in wg.Wait() stays behind.
SelectTimeout(c) ==
    /\ pc[c] = "select"
    /\ sel[c].timer = "fired"
    /\ AfterWait(c, "WaitTimeout")
    /\ leaked' = IF sel[c].helper
                 THEN leaked (+) SetToBag({Barrier(c)})
                 ELSE leaked
    /\ sel' = [sel EXCEPT ![c] = NoSel]
    /\ UNCHANGED <<mu, parentWG, parentDone, ents, gs, calls, crashed>>

\* A helper left behind by a timed-out wait ends once its counter is zero.
LeakedExit(b) ==
    /\ Leaked(b) > 0
    /\ Count(b) = 0
    /\ leaked' = leaked (-) SetToBag({b})
    /\ UNCHANGED <<mu, parentWG, parentDone, tasks, ents, gs, pc, op, res,
                   sel, calls, crashed>>

\* return; the deferred gm.mu.Unlock() runs.
Return(c) ==
    /\ pc[c] = "ret"
    /\ mu' = 0
    /\ pc' = [pc EXCEPT ![c] = "idle"]
    /\ op' = [op EXCEPT ![c] = NoOp]
    /\ res' = [res EXCEPT ![c] = "none"]
    /\ UNCHANGED <<parentWG, parentDone, tasks, ents, gs, sel, leaked,
                   calls, crashed>>

\* ------------------------------------------------------------- goroutines
\* Goroutine r of the bag becomes r2.
Becomes(r, r2) == gs' = (gs (-) One(r)) (+) One(r2)

\* The end of the deferred function: tw.childWG.Done(), with gm.parentWG.Done()
\* still to come.
ChildDone(r, failed) ==
    /\ ents' = [ents EXCEPT ![r.ent].wg = @ - 1]
    /\ Becomes(r, [r EXCEPT !.phase = "pdone", !.cdec = @ + 1, !.failed = failed])

\* tw.task(tw.childCtx) returns; the deferred function finds recover() == nil.
TaskReturn(r) ==
    /\ r.phase = "run"
    /\ r.kind = "instant" \/ (r.kind = "loop" /\ ents[r.ent].done)
    /\ ChildDone(r, FALSE)
    /\ UNCHANGED <<mu, parentWG, parentDone, tasks, pc, op, res, sel,
                   leaked, calls, crashed>>

\* A work function that ignores its context is made to return from outside.
ExternalExit(r) ==
    /\ r.phase = "run"
    /\ r.kind = "ignore"
    /\ ChildDone(r, FALSE)
    /\ UNCHANGED <<mu, parentWG, parentDone, tasks, pc, op, res, sel,
                   leaked, calls, crashed>>

\* Mutant: the deferred function calls childWG.Done() before the handler.
TaskPanicDoneFirst(r) ==
    /\ r.phase = "run"
    /\ r.kind = "panic"
    /\ \E h \in BOOLEAN :
          IF h
          THEN /\ Becomes(r, [r EXCEPT !.phase = "handler", !.failed = TRUE,
                                       !.hset = TRUE, !.hcalls = @ + 1, !.cdec = @ + 1])
               /\ ents' = [ents EXCEPT ![r.ent].wg = @ - 1]
          ELSE ChildDone(r, TRUE)
    /\ UNCHANGED <<mu, parentWG, parentDone, tasks, pc, op, res, sel,
                   leaked, calls, crashed>>

\* The task panics; the deferred function finds recover() != nil and calls
\* gm.PanicHandler(err) when the owner has set it (hset), else goes on to the
\* Done calls.
TaskPanic(r) ==
    /\ r.phase = "run"
    /\ r.kind = "panic"
    /\ \E h \in BOOLEAN :
          IF h
          THEN /\ Becomes(r, [r EXCEPT !.phase = "handler", !.failed = TRUE,
                                       !.hset = TRUE, !.hcalls = @ + 1])
               /\ ents' = ents
          ELSE ChildDone(r, TRUE)
    /\ UNCHANGED <<mu, parentWG, parentDone, tasks, pc, op, res, sel,
                   leaked, calls, crashed>>

\* gm.PanicHandler(err) returns.
HandlerReturn(r) ==
    /\ r.phase = "handler"
    /\ ChildDone(r, TRUE)
    /\ UNCHANGED <<mu, parentWG, parentDone, tasks, pc, op, res, sel,
                   leaked, calls, crashed>>

\* gm.PanicHandler(err) panics: the panic leaves the deferred function, nothing
\* recovers it, the two Done calls are skipped and the runtime ends the process.
HandlerPanic(r) ==
    /\ r.phase = "handler"
    /\ Becomes(r, [r EXCEPT !.phase = "dead"])
    /\ crashed' = TRUE
    /\ UNCHANGED <<mu, parentWG, parentDone, tasks, ents, pc, op, res, sel,
                   leaked, calls>>

\* gm.parentWG.Done(); the goroutine ends.
ParentDone(r) ==
    /\ r.phase = "pdone"
    /\ parentWG' = parentWG - 1
    /\ Becomes(r, Ended)
    /\ UNCHANGED <<mu, parentDone, tasks, ents, pc, op, res, sel,
                   leaked, calls, crashed>>

\* ------------------------------------------------------------- specification
CallerStep(c) ==
    \/ \E f \in Methods : Call(c, f)
    \/ AddTask(c)
    \/ RemoveTask(c)
    \/ StartAll(c)
    \/ StopAll(c)
    \/ Start(c)
    \/ Stop(c)
    \/ LaunchAdd(c)
    \/ LaunchGo(c)
    \/ WgWait(c)
    \/ HelperClose(c)
    \/ TimerFire(c)
    \/ SelectDone(c)
    \/ SelectTimeout(c)
    \/ Return(c)

GoStep(r) ==
    \/ TaskReturn(r)
    \/ ExternalExit(r)
    \/ TaskPanic(r)
    \/ HandlerReturn(r)
    \/ HandlerPanic(r)
    \/ ParentDone(r)

Next ==
    /\ ~crashed
    /\ UNCHANGED host
    /\ \/ \E c \in Callers : CallerStep(c)
       \/ \E r \in BagToSet(gs) : GoStep(r)
       \/ \E b \in BagToSet(leaked) : LeakedExit(b)

Spec == Init /\ [][Next]_vars

\* The steps a call takes by itself once it holds gm.mu, the timer included.
Progress(c) ==
    /\ ~crashed
    /\ UNCHANGED host
    /\ \/ LaunchAdd(c) \/ LaunchGo(c) \/ WgWait(c) \/ HelperClose(c)
       \/ TimerFire(c) \/ SelectDone(c) \/ SelectTimeout(c) \/ Return(c)

\* The steps the launched goroutines take by themselves.
GoProgress ==
    /\ ~crashed
    /\ UNCHANGED host
    /\ \E r \in BagToSet(gs) :
          TaskReturn(r) \/ TaskPanic(r) \/ HandlerReturn(r) \/ HandlerPanic(r)
             \/ ParentDone(r)

\* The Go scheduler runs every runnable goroutine, and a timer that is due fires.
FairSpec == Spec /\ WF_vars(GoProgress) /\ \A c \in Callers : WF_vars(Progress(c))

\* ------------------------------------------------------------- WaitGroupWithTimeout alone
\* Threads call WaitGroupWithTimeout(wg, timeout) directly, with wg nil or
\* a WaitGroup whose counter starts anywhere in 0..MaxCount and is
\* brought down by Done calls from outside. A WaitGroup is an entry of ents
\* (only its wg field matters here); op[c].ent = 0 stands for wg == nil.
WaitInit ==
    /\ mu = 0
    /\ parentWG = 0
    /\ parentDone = FALSE
    /\ tasks = [n \in Names |-> 0]
    /\ ents \in [{1} -> {[NewTask EXCEPT !.wg = k] : k \in 0..MaxCount}]
    /\ gs = EmptyBag
    /\ pc = [c \in Callers |-> "idle"]
    /\ op = [c \in Callers |-> NoOp]
    /\ res = [c \in Callers |-> "none"]
    /\ sel = [c \in Callers |-> NoSel]
    /\ leaked = EmptyBag
    /\ calls = 0
    /\ crashed = FALSE
    /\ host = NoHost

\* Mutant: a nil WaitGroup is reported as a finished wait.
WaitCallNilOk(c) ==
    /\ pc[c] = "idle"
    /\ calls < MaxCalls
    /\ calls' = calls + 1
    /\ \E e \in {0} \cup DOMAIN ents, t \in Timeouts :
          IF e = 0
          THEN /\ op' = [op EXCEPT ![c] = [NoOp EXCEPT !.fn = "WaitGroupWithTimeout",
                                                  !.tmo = t, !.wres = "WaitSuccess"]]
               /\ pc' = [pc EXCEPT ![c] = "ret"]
               /\ sel' = sel
          ELSE /\ op' = [op EXCEPT ![c] = [NoOp EXCEPT !.fn = "WaitGroupWithTimeout",
                                                  !.tmo = t, !.ent = e,
                                                  !.cnt0 = ents[e].wg]]
               /\ EnterWait(c, t)
    /\ UNCHANGED <<mu, parentWG, parentDone, tasks, ents, gs, res, leaked, crashed>>

\* WaitGroupWithTimeout(wg, t): if wg == nil { return WaitInvalidParam }, else
\* on to the wait.
WaitCall(c) ==
    /\ pc[c] = "idle"
    /\ calls < MaxCalls
    /\ calls' = calls + 1
    /\ \E e \in {0} \cup DOMAIN ents, t \in Timeouts :
          IF e = 0
          THEN /\ op' = [op EXCEPT ![c] = [NoOp EXCEPT !.fn = "WaitGroupWithTimeout",
                                                  !.tmo = t, !.wres = "WaitInvalidParam"]]
               /\ pc' = [pc EXCEPT ![c] = "ret"]
               /\ sel' = sel
          ELSE /\ op' = [op EXCEPT ![c] = [NoOp EXCEPT !.fn = "WaitGroupWithTimeout",
                                                  !.tmo = t, !.ent = e,
                                                  !.cnt0 = ents[e].wg]]
               /\ EnterWait(c, t)
    /\ UNCHANGED <<mu, parentWG, parentDone, tasks, ents, gs, res, leaked, crashed>>

\* Somebody calls wg.Done() on WaitGroup e.
WgDone(e) ==
    /\ ents[e].wg > 0
    /\ ents' = [ents EXCEPT ![e].wg = @ - 1]
    /\ UNCHANGED <<mu, parentWG, parentDone, tasks, gs, pc, op, res, sel, leaked,
                   calls, crashed>>

\* The caller has the result and goes on.
WaitReturn(c) ==
    /\ pc[c] = "ret"
    /\ pc' = [pc EXCEPT ![c] = "idle"]
    /\ op' = [op EXCEPT ![c] = NoOp]
    /\ res' = [res EXCEPT ![c] = "none"]
    /\ UNCHANGED <<mu, parentWG, parentDone, tasks, ents, gs, sel, leaked,
                   calls, crashed>>

WaitNext ==
    /\ UNCHANGED host
    /\ \/ \E c \in Callers :
             \/ WaitCall(c)
             \/ WgWait(c)
             \/ HelperClose(c)
             \/ TimerFire(c)
             \/ SelectDone(c)
             \/ SelectTimeout(c)
             \/ WaitReturn(c)
       \/ \E e \in DOMAIN ents : WgDone(e)
       \/ \E b \in BagToSet(leaked) : LeakedExit(b)

WaitSpec == WaitInit /\ [][WaitNext]_vars

\* ------------------------------------------------------------- WaitCancelWithTimeout
\* Direct calls of WaitCancelWithTimeout(ctx, t) on a parent context (0) and
\* the contexts derived from it, which somebody else may cancel at any time.
CtxDone(e) == IF e = 0 THEN parentDone ELSE ents[e].done

\* Two contexts made by context.WithCancel(parent); nothing canceled yet.
CancelInit ==
    /\ mu = 0
    /\ parentWG = 0
    /\ parentDone = FALSE
    /\ tasks = [n \in Names |-> 0]
    /\ ents = <<NewTask, NewTask>>
    /\ gs = EmptyBag
    /\ pc = [c \in Callers |-> "idle"]
    /\ op = [c \in Callers |-> NoOp]
    /\ res = [c \in Callers |-> "none"]
    /\ sel = [c \in Callers |-> NoSel]
    /\ leaked = EmptyBag
    /\ calls = 0
    /\ crashed = FALSE
    /\ host = NoHost

\* WaitCancelWithTimeout(ctx, t): if timeout < 0 { <-ctx.Done() } else select.
CancelCall(c) ==
    /\ pc[c] = "idle"
    /\ calls < MaxCalls
    /\ calls' = calls + 1
    /\ \E e \in {0} \cup DOMAIN ents, t \in Timeouts :
          /\ op' = [op EXCEPT ![c] = [NoOp EXCEPT !.fn = "WaitCancelWithTimeout",
                                                  !.tmo = t, !.ent = e]]
          /\ pc' = [pc EXCEPT ![c] = IF t < 0 THEN "ctxwait" ELSE "ctxselect"]
          /\ sel' = [sel EXCEPT ![c].timer = IF t < 0 THEN "off" ELSE "armed"]
    /\ UNCHANGED <<mu, parentWG, parentDone, tasks, ents, gs, res, leaked, crashed>>

\* Somebody calls the cancel function of a derived context.
CtxCancel(e) ==
    /\ ents' = ChildCancel(ents, e)
    /\ UNCHANGED <<mu, parentWG, parentDone, tasks, gs, pc, op, res, sel, leaked,
                   calls, crashed>>

\* Somebody calls the cancel function of the parent context.
CtxCancelParent ==
    /\ parentDone' = TRUE
    /\ ents' = ParentCancel(ents)
    /\ UNCHANGED <<mu, parentWG, tasks, gs, pc, op, res, sel, leaked, calls, crashed>>

\* Mutant: a negative timeout returns WaitSuccess without the receive.
CtxWaitNoBlock(c) ==
    /\ pc[c] = "ctxwait"
    /\ op' = [op EXCEPT ![c].wres = "WaitSuccess"]
    /\ pc' = [pc EXCEPT ![c] = "ret"]
    /\ UNCHANGED <<mu, parentWG, parentDone, tasks, ents, gs, res, sel, leaked,
                   calls, crashed>>

\* timeout < 0: <-ctx.Done(); return WaitSuccess
CtxWait(c) ==
    /\ pc[c] = "ctxwait"
    /\ CtxDone(op[c].ent)
    /\ op' = [op EXCEPT ![c].wres = "WaitSuccess"]
    /\ pc' = [pc EXCEPT ![c] = "ret"]
    /\ UNCHANGED <<mu, parentWG, parentDone, tasks, ents, gs, res, sel, leaked,
                   calls, crashed>>

\* time.After(timeout) becomes ready: a short timeout at any time, the large
\* one only while the context is not canceled (a select that finds Done closed
\* returns before a long timer is due).
CtxTimerFire(c) ==
    /\ pc[c] = "ctxselect"
    /\ sel[c].timer = "armed"
    /\ op[c].tmo < LargeTimeout \/ ~CtxDone(op[c].ent)
    /\ sel' = [sel EXCEPT ![c].timer = "fired"]
    /\ UNCHANGED <<mu, parentWG, parentDone, tasks, ents, gs, pc, op, res,
                   leaked, calls, crashed>>

\* select: case <-ctx.Done(): return WaitSuccess
CtxSelectDone(c) ==
    /\ pc[c] = "ctxselect"
    /\ CtxDone(op[c].ent)
    /\ op' = [op EXCEPT ![c].wres = "WaitSuccess"]
    /\ pc' = [pc EXCEPT ![c] = "ret"]
    /\ UNCHANGED <<mu, parentWG, parentDone, tasks, ents, gs, res, sel, leaked,
                   calls, crashed>>

\* select: case <-time.After(timeout): return WaitTimeout
CtxSelectTimeout(c) ==
    /\ pc[c] = "ctxselect"
    /\ sel[c].timer = "fired"
    /\ op' = [op EXCEPT ![c].wres = "WaitTimeout"]
    /\ pc' = [pc EXCEPT ![c] = "ret"]
    /\ UNCHANGED <<mu, parentWG, parentDone, tasks, ents, gs, res, sel, leaked,
                   calls, crashed>>

\* The caller has the result and goes on.
CancelReturn(c) ==
    /\ pc[c] = "ret"
    /\ pc' = [pc EXCEPT ![c] = "idle"]
    /\ op' = [op EXCEPT ![c] = NoOp]
    /\ sel' = [sel EXCEPT ![c] = NoSel]
    /\ UNCHANGED <<mu, parentWG, parentDone, tasks, ents, gs, res, leaked,
                   calls, crashed>>

\* What a call does by itself once the channel it waits for is ready.
CancelProgress(c) ==
    /\ UNCHANGED host
    /\ CtxWait(c) \/ CtxSelectDone(c) \/ CtxSelectTimeout(c) \/ CancelReturn(c)

CancelNext ==
    /\ UNCHANGED host
    /\ \/ \E c \in Callers :
             \/ CancelCall(c)
             \/ CtxWait(c)
             \/ CtxTimerFire(c)
             \/ CtxSelectDone(c)
             \/ CtxSelectTimeout(c)
             \/ CancelReturn(c)
       \/ \E e \in DOMAIN ents : CtxCancel(e)
       \/ CtxCancelParent

\* A receive or select with a ready channel is taken.
CancelSpec ==
    /\ CancelInit
    /\ [][CancelNext]_vars
    /\ \A c \in Callers : WF_vars(CancelProgress(c))

\* ------------------------------------------------------------- calls from inside
\* A goroutine launched for entry "a" runs user code (its work function, or the
\* handler called for its panic when failed is set) that calls Stop,
\* RemoveTask or StopAll of the same manager before the goroutine's Done
\* calls. The lowest caller is the thread of that goroutine; the other caller
\* is a thread outside that makes the later calls.
Inside == CHOOSE c \in Callers : \A d \in Callers : c <= d

\* The goroutine's user code is still running.
SelfRunning(r) == r.kind = "self" /\ r.phase = "run"

\* Mutant: the goroutine was launched without the two Add calls.
SelfInitUncounted ==
    /\ mu = 0
    /\ parentWG = 0
    /\ parentDone = FALSE
    /\ tasks = [n \in Names |-> IF n = "a" THEN 1 ELSE 0]
    /\ ents = <<NewTask>>
    /\ \E h \in BOOLEAN :
          gs = One([NewGoroutine(1, "self") EXCEPT !.failed = h, !.hset = h,
                                                  !.hcalls = IF h THEN 1 ELSE 0])
    /\ pc = [c \in Callers |-> "idle"]
    /\ op = [c \in Callers |-> NoOp]
    /\ res = [c \in Callers |-> "none"]
    /\ sel = [c \in Callers |-> NoSel]
    /\ leaked = EmptyBag
    /\ calls = 0
    /\ crashed = FALSE
    /\ host = NoHost

\* AddTask("a", f) and Start("a") have returned: both counters are 1 and the
\* goroutine is in its user code.
SelfInit ==
    /\ mu = 0
    /\ parentWG = 1
    /\ parentDone = FALSE
    /\ tasks = [n \in Names |-> IF n = "a" THEN 1 ELSE 0]
    /\ ents = <<[NewTask EXCEPT !.wg = 1]>>
    /\ \E h \in BOOLEAN :
          gs = One([NewGoroutine(1, "self") EXCEPT !.failed = h, !.hset = h,
                                                  !.hcalls = IF h THEN 1 ELSE 0])
    /\ pc = [c \in Callers |-> "idle"]
    /\ op = [c \in Callers |-> NoOp]
    /\ res = [c \in Callers |-> "none"]
    /\ sel = [c \in Callers |-> NoSel]
    /\ leaked = EmptyBag
    /\ calls = 0
    /\ crashed = FALSE
    /\ host = NoHost

\* The user code calls Stop, RemoveTask or StopAll.
SelfCall(f) ==
    /\ f \in {"Stop", "StopAll", "RemoveTask"}
    /\ \E r \in BagToSet(gs) : SelfRunning(r)
    /\ Call(Inside, f)

\* A thread outside calls a method (StartAll launches as Start does and is
\* left out).
OutsideCall(c, f) ==
    /\ c # Inside
    /\ f \in Methods \ {"StartAll"}
    /\ Call(c, f)

\* The user code returns, which it can only do when no call of its own is
\* under way; the deferred function goes on to tw.childWG.Done().
SelfReturn(r) ==
    /\ SelfRunning(r)
    /\ pc[Inside] = "idle"
    /\ ChildDone(r, r.failed)
    /\ UNCHANGED <<mu, parentWG, parentDone, tasks, pc, op, res, sel,
                   leaked, calls, crashed>>

SelfNext ==
    /\ ~crashed
    /\ UNCHANGED host
    /\ \/ \E f \in Methods : SelfCall(f)
       \/ \E c \in Callers, f \in Methods : OutsideCall(c, f)
       \/ \E c \in Callers :
             \/ AddTask(c) \/ RemoveTask(c) \/ StopAll(c) \/ Start(c) \/ Stop(c)
             \/ LaunchAdd(c) \/ LaunchGo(c) \/ WgWait(c) \/ HelperClose(c)
             \/ TimerFire(c) \/ SelectDone(c) \/ SelectTimeout(c) \/ Return(c)
       \/ \E r \in BagToSet(gs) : SelfReturn(r) \/ GoStep(r)
       \/ \E b \in BagToSet(leaked) : LeakedExit(b)

SelfSpec == SelfInit /\ [][SelfNext]_vars

\* ------------------------------------------------------------- the host's start()
\* The host's main thread makes the manager calls of start() in the order of
\* its code; the one registered task is server.Run. host.pc is the last thing
\* start() began: "init" (the manager exists, the handler is set), "AddTask",
\* "StartAll", "recv" (a signal was received), "StopAll", "exit" (the logger is
\* finalized and start() has returned). host.sig is the signal that sigChan,
\* of capacity 1, holds, and host.got the signal start() received.
Main == CHOOSE c \in Callers : \A d \in Callers : c <= d
Server == CHOOSE n \in Names : \A m \in Names \ {n} : n # m /\ n = "a"

\* What server.Run does, in terms of Kinds: it returns at once after a fatal
\* configuration error (instant), serves until its context is canceled and then
\* shuts down (loop), has not returned when the timer of StopAll fires (ignore),
\* or panics.

\* gm := goroutine.NewGoroutineManager(); gm.PanicHandler = o.panicHandler
HostInit ==
    /\ mu = 0
    /\ parentWG = 0
    /\ parentDone = FALSE
    /\ tasks = [n \in Names |-> 0]
    /\ ents = <<>>
    /\ gs = EmptyBag
    /\ pc = [c \in Callers |-> "idle"]
    /\ op = [c \in Callers |-> NoOp]
    /\ res = [c \in Callers |-> "none"]
    /\ sel = [c \in Callers |-> NoSel]
    /\ leaked = EmptyBag
    /\ calls = 0
    /\ crashed = FALSE
    /\ host = [NoHost EXCEPT !.pc = "init"]

\* start() goes on to its next manager call once the one before has returned.
HostCall(f, from) ==
    /\ host.pc = from
    /\ Call(Main, f)
    /\ host' = [host EXCEPT !.pc = f]

\* o.initialization(gm): gm.AddTask("server", server.Run)
HostAddTask == HostCall("AddTask", "init")

\* gm.StartAll()
HostStartAll == HostCall("StartAll", "AddTask")

\* sig := <-sigChan
HostReceive ==
    /\ host.pc = "StartAll"
    /\ pc[Main] = "idle"
    /\ host.sig # "none"
    /\ host' = [pc |-> "recv", sig |-> "none", got |-> host.sig]
    /\ UNCHANGED <<mu, parentWG, parentDone, tasks, ents, gs, pc, op, res,
                   sel, leaked, calls, crashed>>

\* return nil; the deferred o.finalization(gm) begins: gm.StopAll(10 * time.Second)
HostStopAll == HostCall("StopAll", "recv")

\* logger.Log.FinalizeLogger(); start() has returned and the process ends.
HostFinalize ==
    /\ host.pc = "StopAll"
    /\ pc[Main] = "idle"
    /\ host' = [host EXCEPT !.pc = "exit"]
    /\ UNCHANGED <<mu, parentWG, parentDone, tasks, ents, gs, pc, op, res,
                   sel, leaked, calls, crashed>>

\* The manager's part of the three calls, with the arguments start() passes.
HostAddTaskBody == AddTask(Main) /\ op'[Main].name = Server /\ UNCHANGED host
HostStartAllBody == StartAll(Main) /\ UNCHANGED host
HostLaunchAdd == LaunchAdd(Main) /\ UNCHANGED host
HostLaunchGo == LaunchGo(Main) /\ UNCHANGED host
HostStopAllBody == StopAll(Main) /\ op'[Main].tmo = LargeTimeout /\ UNCHANGED host
HostHelperClose == HelperClose(Main) /\ UNCHANGED host
HostTimerFire == TimerFire(Main) /\ UNCHANGED host
HostSelectDone == SelectDone(Main) /\ UNCHANGED host
HostSelectTimeout == SelectTimeout(Main) /\ UNCHANGED host
HostReturn == Return(Main) /\ UNCHANGED host

\* process.SendSignal(pid, s): signal.Notify puts the signal into sigChan, or
\* drops it when sigChan is full.
SendSignal(s) == host' = IF host.sig = "none" THEN [host EXCEPT !.sig = s] ELSE host

\* server.Run returns: after a fatal error it has sent SIGUSR1 first.
HostTaskReturn(r) ==
    /\ host.pc # "exit"
    /\ TaskReturn(r)
    /\ IF r.kind = "instant" THEN SendSignal("SIGUSR1") ELSE UNCHANGED host

\* server.Run panics: gm.PanicHandler is set, so o.panicHandler is called.
HostTaskPanic(r) ==
    /\ host.pc # "exit"
    /\ TaskPanic(r)
    /\ \E q \in BagToSet(gs') : q.phase = "handler"
    /\ UNCHANGED host

\* Mutant: the handler only logs the panic.
HostHandlerSilent(r) ==
    /\ host.pc # "exit"
    /\ HandlerReturn(r)
    /\ UNCHANGED host

\* o.panicHandler: LogError, SendSignal(pid, SIGUSR1), return.
HostHandler(r) ==
    /\ host.pc # "exit"
    /\ HandlerReturn(r)
    /\ SendSignal("SIGUSR1")

HostParentDone(r) == host.pc # "exit" /\ ParentDone(r) /\ UNCHANGED host

\* The listener goroutine of server.Run: ListenAndServe returns an error other
\* than ErrServerClosed.
HostServerError ==
    /\ host.pc # "exit"
    /\ \E r \in BagToSet(gs) : r.kind = "loop" /\ r.phase \in {"run", "pdone"}
    /\ SendSignal("SIGUSR1")
    /\ UNCHANGED <<mu, parentWG, parentDone, tasks, ents, gs, pc, op, res,
                   sel, leaked, calls, crashed>>

\* SIGINT, or the SIGTERM of the stop command, from outside.
HostSignal ==
    /\ host.pc # "exit"
    /\ \E s \in {"SIGINT", "SIGTERM"} : SendSignal(s)
    /\ UNCHANGED <<mu, parentWG, parentDone, tasks, ents, gs, pc, op, res,
                   sel, leaked, calls, crashed>>

\* The steps of the main thread.
HostMain ==
    \/ HostAddTask \/ HostAddTaskBody
    \/ HostStartAll \/ HostStartAllBody \/ HostLaunchAdd \/ HostLaunchGo
    \/ HostReceive
    \/ HostStopAll \/ HostStopAllBody \/ HostHelperClose \/ HostTimerFire
    \/ HostSelectDone \/ HostSelectTimeout
    \/ HostReturn
    \/ HostFinalize

\* The steps of the goroutine that runs server.Run.
HostGo ==
    \E r \in BagToSet(gs) :
       HostTaskReturn(r) \/ HostTaskPanic(r) \/ HostHandler(r) \/ HostParentDone(r)

HostNext ==
    \/ HostAddTask
    \/ HostAddTaskBody
    \/ HostStartAll
    \/ HostStartAllBody
    \/ HostLaunchAdd
    \/ HostLaunchGo
    \/ HostReceive
    \/ HostStopAll
    \/ HostStopAllBody
    \/ HostHelperClose
    \/ HostTimerFire
    \/ HostSelectDone
    \/ HostSelectTimeout
    \/ HostReturn
    \/ HostFinalize
    \/ \E r \in BagToSet(gs) : HostTaskReturn(r)
    \/ \E r \in BagToSet(gs) : HostTaskPanic(r)
    \/ \E r \in BagToSet(gs) : HostHandler(r)
    \/ \E r \in BagToSet(gs) : HostParentDone(r)
    \/ HostServerError
    \/ HostSignal

\* The Go scheduler runs the main thread and the goroutine when they can step.
HostSpec == HostInit /\ [][HostNext]_vars /\ WF_vars(HostMain) /\ WF_vars(HostGo)

\* ------------------------------------------------------------- properties
Gs == BagToSet(gs)

RECURSIVE Copies(_)
Copies(S) ==
    IF S = {} THEN 0
    ELSE LET r == CHOOSE x \in S : TRUE IN CopiesIn(r, gs) + Copies(S \ {r})

\* Goroutines of entry e that have not called childWG.Done() yet.
BeforeChildDone(e) == Copies({r \in Gs : r.ent = e /\ r.phase \in {"run", "handler", "dead"}})

\* Goroutines that have not called parentWG.Done() yet.
BeforeParentDone == Copies({r \in Gs : r.phase # "exit"})

\* Launches whose Add calls are made and whose go statement is still to come.
PendingGo(e) == Cardinality({c \in Callers : pc[c] = "go" /\ op[c].ent = e})
PendingGoAll == Cardinality({c \in Callers : pc[c] = "go"})

\* C1: a goroutine whose work function panicked calls the handler exactly once
\* when it is set, never ends the process, and calls each Done exactly once:
\* it is never left dead before its Done calls.
C1_PanicIsolated ==
    /\ ~crashed
    /\ \A r \in Gs :
          r.failed =>
             /\ r.phase # "dead"
             /\ r.hcalls = (IF r.hset THEN 1 ELSE 0)
             /\ r.phase = "handler" => r.cdec = 0 /\ r.pdec = 0
             /\ r.phase = "pdone" => r.cdec = 1 /\ r.pdec = 0

\* C2: a handler that panics does not end the process, and the goroutine that
\* called it still calls childWG.Done() and parentWG.Done().
C2_HandlerPanicContained ==
    /\ ~crashed
    /\ \A r \in Gs : r.phase # "dead"

\* C3: once the parent context is canceled, the context of every task ever
\* registered is canceled, whether or not its own cancel function was called.
C3_RootCancelReachesTasks == parentDone => \A e \in DOMAIN ents : ents[e].done

\* A goroutine started before StopAll still runs, and its context is canceled
\* although childCancel was never called for it.
C3_Witness ==
    /\ parentDone
    /\ \E r \in Gs :
          /\ r.phase = "run"
          /\ r.kind = "loop"
          /\ ents[r.ent].done
          /\ ~ents[r.ent].own

\* C4: every goroutine that has not reached its Done calls is counted in both
\* WaitGroups from the moment it exists; so when StartAll returns, a registered
\* task whose launched body has not finished has a non-zero childWG.
C4_AddBeforeLaunch ==
    /\ \A e \in DOMAIN ents : ents[e].wg >= BeforeChildDone(e) + PendingGo(e)
    /\ parentWG >= BeforeParentDone + PendingGoAll
    /\ \A c \in Callers :
          pc[c] = "ret" /\ op[c].fn = "StartAll" =>
             \A n \in Names :
                tasks[n] # 0 /\ BeforeChildDone(tasks[n]) > 0 => ents[tasks[n]].wg > 0

\* StartAll has returned with two registered tasks whose bodies still run.
C4_Witness ==
    \E c \in Callers :
       /\ pc[c] = "ret"
       /\ op[c].fn = "StartAll"
       /\ \A n \in Names :
             /\ tasks[n] # 0
             /\ ents[tasks[n]].wg > 0
             /\ \E r \in Gs : r.ent = tasks[n] /\ r.phase = "run"

StopLike == {"Stop", "StopAll", "RemoveTask"}

\* Goroutine r is counted in WaitGroup b until its Done on b.
OnBarrier(r, b) == IF b = 0 THEN r.phase # "exit" ELSE r.ent = b

\* C5: when every launched work function returns (at once, or once it sees its
\* context canceled), a StopAll with an unbounded or a large timeout returns
\* nil, the deadline of the large timeout not having passed; and whenever
\* StopAll returns nil, parentWG and every childWG are zero and every task
\* context is canceled.
C5_StopAllSucceeds ==
    /\ [](\A c \in Callers :
            pc[c] = "ret" /\ op[c].fn = "StopAll" /\ res[c] = "nil" =>
               /\ parentWG = 0
               /\ \A e \in DOMAIN ents : ents[e].wg = 0 /\ ents[e].done)
    /\ \A c \in Callers :
          (/\ pc[c] \in {"wgwait", "select"}
           /\ op[c].fn = "StopAll"
           /\ op[c].tmo \in {-1, LargeTimeout}
           /\ sel[c].timer # "fired"
           /\ \A r \in Gs : r.kind \in {"instant", "loop", "none"})
             ~> (pc[c] = "ret" /\ res[c] = "nil")

\* StopAll with the large timeout returned nil after waiting for two goroutines
\* of two registered tasks, neither canceled through its own cancel function.
C5_Witness ==
    \E c \in Callers :
       /\ pc[c] = "ret" /\ op[c].fn = "StopAll" /\ res[c] = "nil"
       /\ op[c].tmo = LargeTimeout
       /\ op[c].cnt0 = 2
       /\ \A n \in Names : tasks[n] # 0 /\ ~ents[tasks[n]].own

\* C6: a Stop with timeout >= 0 that returns while a goroutine of the task has
\* still not finished returns the timeout error; a Stop with a large timeout
\* that begins when the task has no goroutine outstanding returns nil.
C6_StopTimeoutThenSuccess ==
    \A c \in Callers :
       pc[c] = "ret" /\ op[c].fn = "Stop" /\ op[c].ent # 0 =>
          /\ op[c].tmo >= 0 /\ ents[op[c].ent].wg > 0 => res[c] = "timeout"
          /\ op[c].tmo >= LargeTimeout /\ op[c].cnt0 = 0 => res[c] = "nil"

\* A second Stop, with the large timeout, returned nil on a task whose earlier
\* Stop timed out: the helper goroutine of that earlier wait is still around.
C6_Witness ==
    \E c \in Callers :
       /\ pc[c] = "ret" /\ op[c].fn = "Stop" /\ res[c] = "nil"
       /\ op[c].tmo = LargeTimeout
       /\ op[c].ent # 0 /\ op[c].cnt0 = 0
       /\ Leaked(op[c].ent) > 0

\* C7: a wait with timeout >= 0 always ends; if it ends while a work function
\* that ignores its context still runs, the call returns the timeout error and
\* the goroutine is still counted; and no step of a caller removes or alters a
\* goroutine.
C7_BoundedWaitReturns ==
    /\ \A c \in Callers : (pc[c] = "select") ~> (pc[c] = "ret")
    /\ [](\A c \in Callers :
            (/\ pc[c] = "ret" /\ op[c].fn \in StopLike /\ op[c].tmo >= 0
             /\ op[c].wres # "none"
             /\ \E r \in Gs : /\ OnBarrier(r, Barrier(c))
                              /\ r.phase = "run" /\ r.kind = "ignore")
               => res[c] = "timeout" /\ Count(Barrier(c)) > 0)
    /\ [][pc' # pc => \A r \in Gs : CopiesIn(r, gs') >= CopiesIn(r, gs)]_vars

\* C8: the handler has been called and has returned before a failing goroutine
\* calls either Done, so a wait that succeeded never leaves a failing goroutine
\* of its WaitGroup before or inside the handler.
C8_HandlerBeforeDone ==
    /\ \A r \in Gs :
          /\ r.phase \in {"run", "handler", "dead"} => r.cdec = 0 /\ r.pdec = 0
          /\ r.failed /\ r.hset /\ r.cdec > 0 => r.hcalls = 1
    /\ \A c \in Callers :
          pc[c] = "ret" /\ op[c].wres = "WaitSuccess" =>
             \A r \in Gs :
                OnBarrier(r, Barrier(c)) /\ r.kind = "panic" =>
                   r.phase \notin {"run", "handler"}

\* Stop returned nil for a task whose goroutine failed: the handler was called
\* and has returned, parentWG.Done() is still to come.
C8_Witness ==
    \E c \in Callers :
       /\ pc[c] = "ret" /\ op[c].fn = "Stop" /\ op[c].wres = "WaitSuccess"
       /\ op[c].cnt0 > 0
       /\ \E r \in Gs : /\ r.ent = op[c].ent /\ r.failed /\ r.hset
                        /\ r.hcalls = 1 /\ r.phase = "pdone"

\* C9: RemoveTask on a registered name cancels the task context; it deletes the
\* entry exactly when the wait succeeded, and else returns the timeout error
\* with the entry still registered and canceled.
C9_RemoveOnlyOnSuccess ==
    \A c \in Callers :
       pc[c] = "ret" /\ op[c].fn = "RemoveTask" /\ op[c].ent # 0 =>
          /\ ents[op[c].ent].done /\ ents[op[c].ent].own
          /\ op[c].wres = "WaitSuccess" <=> tasks[op[c].name] = 0
          /\ op[c].wres = "WaitSuccess" => res[c] = "nil"
          /\ op[c].wres # "WaitSuccess" =>
                res[c] = "timeout" /\ tasks[op[c].name] = op[c].ent

\* RemoveTask timed out on a task whose goroutine still runs: the entry is
\* still registered, canceled.
C9_Witness ==
    \E c \in Callers :
       /\ pc[c] = "ret" /\ op[c].fn = "RemoveTask" /\ res[c] = "timeout"
       /\ tasks[op[c].name] = op[c].ent
       /\ ents[op[c].ent].done
       /\ ents[op[c].ent].wg > 0

\* C10: RemoveTask on a name that is not registered returns nil and changes
\* neither the registry, nor a context, nor a counter, nor any goroutine (so
\* no handler is called).
C10_RemoveUnknownIsNoOp ==
    [][\A c \in Callers :
          (/\ pc[c] = "lock" /\ op[c].fn = "RemoveTask"
           /\ pc'[c] # "lock"
           /\ tasks[op'[c].name] = 0)
             => /\ pc'[c] = "ret"
                /\ res'[c] = "nil"
                /\ UNCHANGED <<tasks, ents, parentWG, parentDone, gs, leaked, crashed>>]_vars

\* RemoveTask returned for an unregistered name while another task is
\* registered and has a goroutine outstanding.
C10_Witness ==
    \E c \in Callers :
       /\ pc[c] = "ret" /\ op[c].fn = "RemoveTask" /\ op[c].ent = 0
       /\ res[c] = "nil"
       /\ \E n \in Names : tasks[n] # 0 /\ ents[tasks[n]].wg > 0

\* C11: Start on a name that is not registered returns the not-found error and
\* changes no counter, no goroutine and no registry entry; on a registered name
\* it adds one to parentWG and to the childWG of that entry only, then launches
\* exactly one goroutine of that entry, then returns nil; the registry is the
\* same throughout.
C11_StartOneOrNotFound ==
    [][\A c \in Callers :
          op'[c].fn = "Start" /\ pc'[c] # pc[c] =>
             LET e == tasks[op'[c].name] IN
             /\ pc[c] = "lock" =>
                   /\ UNCHANGED <<tasks, ents, parentWG, parentDone, gs, leaked>>
                   /\ IF e = 0
                      THEN pc'[c] = "ret" /\ res'[c] = "notfound"
                      ELSE pc'[c] = "add" /\ op'[c].todo = {e}
             /\ pc[c] = "add" =>
                   /\ pc'[c] = "go" /\ op'[c].ent = e /\ op'[c].todo = {}
                   /\ e # 0
                   /\ parentWG' = parentWG + 1
                   /\ ents' = [ents EXCEPT ![e].wg = @ + 1]
                   /\ UNCHANGED <<tasks, gs>>
             /\ pc[c] = "go" =>
                   /\ pc'[c] = "ret" /\ res'[c] = "nil"
                   /\ \E k \in Kinds : gs' = gs (+) One(NewGoroutine(e, k))
                   /\ UNCHANGED <<tasks, ents, parentWG>>]_vars

\* Start returned nil: the goroutine it launched runs, beside a goroutine that
\* was already outstanding.
C11_Witness ==
    \E c \in Callers :
       /\ pc[c] = "ret" /\ op[c].fn = "Start" /\ res[c] = "nil"
       /\ parentWG = 2
       /\ \E r \in Gs : r.ent = tasks[op[c].name] /\ r.phase = "run"

\* C12: a step of Stop never changes the registry, the parent context, a
\* counter or a goroutine, and the only context it changes is the one of the
\* entry registered under its name, which it cancels.
C12_StopCancelsOnlyItsTask ==
    [][\A c \in Callers :
          (/\ op[c].fn = "Stop" \/ op'[c].fn = "Stop"
           /\ pc'[c] # pc[c] \/ sel'[c] # sel[c])
             => /\ UNCHANGED <<tasks, parentDone, parentWG, gs>>
                /\ DOMAIN ents' = DOMAIN ents
                /\ \A e \in DOMAIN ents :
                      IF pc[c] = "lock" /\ pc'[c] # "lock" /\ e = tasks[op'[c].name]
                      THEN ents'[e] = [ents[e] EXCEPT !.done = TRUE, !.own = TRUE]
                      ELSE ents'[e] = ents[e]]_vars

\* Stop has canceled its task and returned, while the parent context and the
\* context of the other registered task, whose goroutine runs, are not canceled.
C12_Witness ==
    \E c \in Callers :
       /\ pc[c] = "ret" /\ op[c].fn = "Stop" /\ op[c].ent # 0
       /\ ents[op[c].ent].done
       /\ ~parentDone
       /\ \E n \in Names :
             /\ tasks[n] # 0 /\ tasks[n] # op[c].ent
             /\ ~ents[tasks[n]].done /\ ents[tasks[n]].wg = 1
             /\ \E r \in Gs : r.ent = tasks[n] /\ r.phase = "run" /\ r.kind = "loop"

\* C13: when StopAll with timeout >= 0 returns, it returns the timeout error if
\* parentWG is still not zero, and only if parentWG was not zero when the wait
\* began (the counter only falls during the call); after the timeout error the
\* parent context and every task context are canceled.
C13_StopAllTimeoutExactly ==
    \A c \in Callers :
       pc[c] = "ret" /\ op[c].fn = "StopAll" /\ op[c].tmo >= 0 =>
          /\ parentWG > 0 => res[c] = "timeout"
          /\ res[c] = "timeout" => op[c].cnt0 > 0
          /\ res[c] = "timeout" => parentDone /\ \A e \in DOMAIN ents : ents[e].done

\* Stop, RemoveTask or StopAll of caller c takes its cancel step.
CancelStep(c) ==
    /\ pc[c] = "lock" /\ pc'[c] # "lock"
    /\ op'[c].fn \in StopLike
    /\ op'[c].fn = "StopAll" \/ op'[c].ent # 0

\* The contexts caller c cancels in that step.
CancelTargets(c) == IF op'[c].fn = "StopAll" THEN DOMAIN ents ELSE {op'[c].ent}

\* C14: no step takes the parent context or a task context from canceled back
\* to not canceled; and a cancel step whose contexts are all canceled already
\* changes no canceled flag, does not end the process and goes on to its wait.
C14_CancelSticky ==
    [][/\ parentDone => parentDone'
       /\ \A e \in DOMAIN ents : e \in DOMAIN ents' /\ (ents[e].done => ents'[e].done)
       /\ \A c \in Callers :
             (/\ CancelStep(c)
              /\ op'[c].fn = "StopAll" => parentDone
              /\ \A e \in CancelTargets(c) : ents[e].done)
                => /\ parentDone' = parentDone
                   /\ \A e \in DOMAIN ents : ents'[e].done = ents[e].done
                   /\ ~crashed'
                   /\ pc'[c] \in {"wgwait", "select"}]_vars

\* Stop after StopAll: Stop canceled a context that the parent's cancel had
\* canceled before, and returned nil.
C14_Witness ==
    \E c \in Callers :
       /\ pc[c] = "ret" /\ op[c].fn = "Stop" /\ op[c].ent # 0 /\ res[c] = "nil"
       /\ parentDone
       /\ ents[op[c].ent].done /\ ents[op[c].ent].own

\* C15: the childWG counter of every entry is at most 1, and at most one
\* goroutine of an entry has not yet called childWG.Done().
C15_ChildBarrierAtMostOne ==
    \A e \in DOMAIN ents : ents[e].wg <= 1 /\ BeforeChildDone(e) <= 1

NonWaiting == {"AddTask", "Start", "StartAll"}

\* C16 (as stated): a call of AddTask, Start or StartAll that has arrived at
\* gm.mu.Lock() is never kept out by a call that is inside a wait with
\* timeout >= 0.
C16_NeverBlocks ==
    \A c \in Callers :
       pc[c] = "lock" /\ op[c].fn \in NonWaiting =>
          mu = 0 \/ pc[mu] # "select"

\* C16 (amended): AddTask, Start and StartAll never enter a wait, and once
\* gm.mu is free or theirs every one of their steps can be taken whatever the
\* launched goroutines are doing.
C16_NoWaitOnceLocked ==
    \A c \in Callers :
       op[c].fn \in NonWaiting =>
          /\ pc[c] \in {"lock", "add", "go", "ret"}
          /\ sel[c] = NoSel
          /\ pc[c] = "lock" /\ mu = 0 => ENABLED (AddTask(c) \/ Start(c) \/ StartAll(c))
          /\ pc[c] = "add" => ENABLED LaunchAdd(c)
          /\ pc[c] = "go" => ENABLED LaunchGo(c)
          /\ pc[c] = "ret" => ENABLED Return(c)

\* Start is about to add to the counters of an entry whose earlier goroutine
\* ignores its context and still runs.
C16_Witness ==
    \E c \in Callers :
       /\ pc[c] = "add" /\ op[c].fn = "Start"
       /\ \E r \in Gs : r.ent \in op[c].todo /\ r.phase = "run" /\ r.kind = "ignore"

\* A call of caller c is past gm.mu.Lock() and before its deferred Unlock.
InProgress(c) == pc[c] \in {"add", "go", "wgwait", "select", "ret"}

\* C17: a call is between its Lock and its Unlock exactly while it holds gm.mu,
\* its waits included, so at most one call is in progress; no goroutine step
\* takes, needs or releases gm.mu.
C17_MutualExclusion ==
    /\ [](/\ mu \in Callers \cup {0}
          /\ \A c \in Callers : InProgress(c) <=> mu = c
          /\ Cardinality({c \in Callers : InProgress(c)}) <= 1)
    /\ [][pc' = pc /\ gs' # gs => mu' = mu]_vars
    /\ [](\A r \in Gs : GoEnabled(r) /\ ~crashed => ENABLED GoStep(r))

\* A call is inside its wait with timeout >= 0 and holds gm.mu, another call
\* waits at Lock, and a work function runs.
C17_Witness ==
    \E c, d \in Callers :
       /\ pc[c] = "select" /\ mu = c
       /\ pc[d] = "lock"
       /\ \E r \in Gs : r.phase = "run" /\ r.kind = "loop" /\ ents[r.ent].done

\* C18: no helper goroutine of WaitGroupWithTimeout is still blocked in
\* wg.Wait(), on a counter that is not zero, after the call that started it
\* has returned.
C18_NoHelperLeftBehind == \A b \in BagToSet(leaked) : Count(b) = 0

\* A helper goroutine of caller c's wait, or one left behind by an earlier
\* wait, is blocked in wg.Wait() on WaitGroup b.
WaiterOn(b) ==
    \/ Leaked(b) > 0
    \/ \E c \in Callers : /\ pc[c] = "wgwait" \/ (pc[c] = "select" /\ sel[c].helper)
                          /\ op[c].wres = "none"
                          /\ Barrier(c) = b

\* C19: no step adds to a WaitGroup on which a waiter is blocked.
C19_NoAddWhileWaiting ==
    [][/\ parentWG' > parentWG => ~WaiterOn(0)
       /\ \A e \in DOMAIN ents : ents'[e].wg > ents[e].wg => ~WaiterOn(e)]_vars

WaitErrors == {"WaitSuccess", "WaitTimeout", "WaitInvalidParam"}

\* C20: a direct call of WaitGroupWithTimeout returns one of WaitSuccess,
\* WaitTimeout, WaitInvalidParam; WaitInvalidParam exactly for wg == nil; and
\* WaitSuccess only with the counter at zero (no Add runs during these calls,
\* so a counter seen at zero is zero at the return).
C20_WaitResult ==
    \A c \in Callers :
       pc[c] = "ret" /\ op[c].fn = "WaitGroupWithTimeout" =>
          /\ op[c].wres \in WaitErrors
          /\ op[c].wres = "WaitInvalidParam" <=> op[c].ent = 0
          /\ op[c].wres = "WaitSuccess" => op[c].ent # 0 /\ ents[op[c].ent].wg = 0

\* One direct call has returned WaitInvalidParam for a nil WaitGroup after
\* another returned WaitSuccess for a WaitGroup that was at 2 when it began.
C20_Witness ==
    \E c, d \in Callers :
       /\ pc[c] = "ret" /\ op[c].fn = "WaitGroupWithTimeout"
       /\ op[c].wres = "WaitInvalidParam" /\ op[c].ent = 0
       /\ pc[d] = "ret" /\ op[d].fn = "WaitGroupWithTimeout"
       /\ op[d].wres = "WaitSuccess" /\ op[d].cnt0 = MaxCount

\* C21: a Stop, StopAll or RemoveTask with timeout < 0 waits in wg.Wait()
\* itself, with no helper and no timer; it cannot take a step while the counter
\* is not zero, leaves the wait only with the counter at zero, and returns nil,
\* never the timeout error.
C21_NegativeTimeoutUnbounded ==
    /\ [](\A c \in Callers :
            op[c].fn \in StopLike /\ op[c].tmo < 0 =>
               /\ pc[c] # "select" /\ sel[c] = NoSel
               /\ pc[c] = "wgwait" /\ Count(Barrier(c)) > 0 => ~ENABLED Progress(c)
               /\ pc[c] = "ret" /\ op[c].wres # "none" =>
                     /\ op[c].wres = "WaitSuccess" /\ res[c] = "nil"
                     /\ Count(Barrier(c)) = 0)
    /\ [][\A c \in Callers :
             pc[c] = "wgwait" /\ pc'[c] # "wgwait" =>
                Count(Barrier(c)) = 0 /\ pc'[c] = "ret"]_vars

\* A call with timeout -1 has returned nil after waiting for two goroutines.
C21_Witness ==
    \E c \in Callers :
       /\ pc[c] = "ret" /\ op[c].fn \in StopLike /\ op[c].tmo < 0
       /\ op[c].cnt0 = 2 /\ res[c] = "nil"

\* C22: the step of AddTask launches no goroutine and leaves parentWG, the
\* parent context and every existing entry as they are; it appends one entry
\* with childWG zero and a context derived from the parent context, and points
\* its name, and no other name, at that entry.
C22_AddTaskStartsNothing ==
    [][\A c \in Callers :
          pc[c] = "lock" /\ pc'[c] # "lock" /\ op[c].fn = "AddTask" =>
             LET new == Len(ents) + 1 IN
             /\ pc'[c] = "ret"
             /\ UNCHANGED <<gs, parentWG, parentDone, leaked>>
             /\ Len(ents') = new
             /\ \A e \in DOMAIN ents : ents'[e] = ents[e]
             /\ ents'[new].wg = 0
             /\ ents'[new].par = "parentCtx"
             /\ ents'[new].done = parentDone
             /\ tasks'[op'[c].name] = new
             /\ \A n \in Names \ {op'[c].name} : tasks'[n] = tasks[n]]_vars

\* AddTask has returned with its new entry at zero and not canceled, while the
\* goroutine of another entry runs.
C22_Witness ==
    \E c \in Callers :
       /\ pc[c] = "ret" /\ op[c].fn = "AddTask"
       /\ ents[op[c].ent].wg = 0 /\ ~ents[op[c].ent].done
       /\ tasks[op[c].name] = op[c].ent
       /\ parentWG = 1
       /\ \E r \in Gs : r.phase = "run" /\ r.ent # op[c].ent /\ ents[r.ent].wg = 1

\* Entry e is in no slot of the registry any more.
Orphan(e) == \A n \in Names : tasks[n] # e

C24_RegistryWriters ==
    /\ [][tasks' # tasks =>
            \E c \in Callers :
               \/ /\ pc[c] = "lock" /\ op[c].fn = "AddTask" /\ pc'[c] = "ret"
                  /\ tasks' = [tasks EXCEPT ![op'[c].name] = Len(ents) + 1]
               \/ /\ pc[c] \in {"wgwait", "select"} /\ op[c].fn = "RemoveTask"
                  /\ pc'[c] = "ret" /\ op'[c].wres = "WaitSuccess" /\ res'[c] = "nil"
                  /\ tasks' = [tasks EXCEPT ![op[c].name] = 0]]_vars
    /\ [](\A c \in Callers :
            pc[c] = "ret" /\ op[c].fn = "Start" =>
               (res[c] = "notfound" <=> tasks[op[c].name] = 0))

\* Start has returned the not-found error on an empty registry whose only
\* entry was removed by a RemoveTask that had canceled it.
C24_Witness ==
    \E c \in Callers :
       /\ pc[c] = "ret" /\ op[c].fn = "Start" /\ res[c] = "notfound"
       /\ Len(ents) = 1 /\ Orphan(1)
       /\ ents[1].own /\ ents[1].wg = 0

\* C25: a step of a goroutine whose work function panics cancels no context,
\* changes no registry entry, leaves every other goroutine as it is and does
\* not end the process; and the failed goroutine goes on to its two Done calls
\* like one that returned.
C25_FailureIsolated ==
    /\ [][\A r \in Gs :
             r.kind = "panic" /\ pc' = pc /\ CopiesIn(r, gs') < CopiesIn(r, gs) =>
                /\ UNCHANGED <<tasks, parentDone, mu, leaked>>
                /\ \A e \in DOMAIN ents : ents'[e].done = ents[e].done
                /\ \A q \in Gs \ {r} : CopiesIn(q, gs') >= CopiesIn(q, gs)
                /\ ~crashed']_vars
    /\ [](\A r \in Gs : r.failed => r.phase \in {"handler", "pdone"})

\* C26: parentWG is the number of launched goroutines that have not called
\* parentWG.Done() yet, and the childWG of an entry is the number of its
\* goroutines that have not called childWG.Done() yet (a launch between its Add
\* calls and its go statement counted in); no counter is negative; and every
\* goroutine calls each Done exactly once, so none has ended without them.
C26_CountersExact ==
    /\ parentWG = BeforeParentDone + PendingGoAll
    /\ parentWG >= 0
    /\ \A e \in DOMAIN ents :
          ents[e].wg = BeforeChildDone(e) + PendingGo(e) /\ ents[e].wg >= 0
    /\ \A r \in Gs :
          /\ r.cdec <= 1 /\ r.pdec <= 1
          /\ r.phase = "pdone" => r.cdec = 1
          /\ r.phase = "dead" => r.cdec = 1 /\ r.pdec = 1

\* C27: when Stop has its nil result for a registered name, the entry it looked
\* up is still the one registered under the name, its context is canceled, its
\* childWG is zero with no goroutine of it before childWG.Done(), and the caller
\* still holds gm.mu, so no other call is past its Lock.
C27_StopSuccessMeansStopped ==
    \A c \in Callers :
       pc[c] = "ret" /\ op[c].fn = "Stop" /\ op[c].ent # 0 /\ res[c] = "nil" =>
          /\ tasks[op[c].name] = op[c].ent
          /\ ents[op[c].ent].done
          /\ ents[op[c].ent].wg = 0
          /\ BeforeChildDone(op[c].ent) = 0
          /\ mu = c
          /\ \A d \in Callers \ {c} : pc[d] \in {"idle", "lock"}

\* Stop has returned nil after waiting for a goroutine, while a Start called
\* meanwhile waits at Lock.
C27_Witness ==
    \E c, d \in Callers :
       /\ pc[c] = "ret" /\ op[c].fn = "Stop" /\ op[c].ent # 0 /\ res[c] = "nil"
       /\ op[c].cnt0 = 1
       /\ pc[d] = "lock" /\ op[d].fn = "Start"

\* C28: when StopAll has its nil result, every goroutine ever launched, by
\* StartAll or Start, of a registered entry or of a replaced one, has made both
\* Done calls and ended, and no launch is under way.
C28_StopAllSuccessMeansAllEnded ==
    \A c \in Callers :
       pc[c] = "ret" /\ op[c].fn = "StopAll" /\ res[c] = "nil" =>
          /\ \A r \in Gs : r = Ended
          /\ PendingGoAll = 0
          /\ \A e \in DOMAIN ents : Orphan(e) => ents[e].wg = 0 /\ ents[e].done

\* StopAll has returned nil after waiting for a goroutine, with an entry that
\* AddTask had replaced, canceled through the parent context only.
C28_Witness ==
    \E c \in Callers :
       /\ pc[c] = "ret" /\ op[c].fn = "StopAll" /\ res[c] = "nil"
       /\ op[c].cnt0 = 1
       /\ \E e \in DOMAIN ents : Orphan(e) /\ ents[e].done /\ ~ents[e].own

\* C29 (as stated): a name whose context is canceled gets a context that is not
\* canceled only by way of RemoveTask and then AddTask, so no single step takes
\* a registered name from a canceled context to one that is not canceled.
C29_OnlyRemoveThenAdd ==
    [][\A n \in Names :
          tasks[n] # 0 /\ ents[tasks[n]].done =>
             tasks'[n] = 0 \/ ents'[tasks'[n]].done]_vars

\* C29 (amended): the context of an entry is made once, by AddTask; a launch
\* uses the context of the entry as it is, canceled if Stop or RemoveTask has
\* canceled it; and a registered name with a canceled context gets one that is
\* not canceled only in a step of AddTask on that name, which registers a new
\* entry, whether or not a RemoveTask came before.
C29_ScopeNotRecreated ==
    /\ [][/\ \A n \in Names :
                (/\ tasks[n] # 0 /\ ents[tasks[n]].done
                 /\ tasks'[n] # 0 /\ ~ents'[tasks'[n]].done)
                   => \E c \in Callers :
                         /\ pc[c] = "lock" /\ op[c].fn = "AddTask" /\ pc'[c] = "ret"
                         /\ op'[c].name = n
                         /\ tasks'[n] = Len(ents) + 1
          /\ \A c \in Callers :
                pc[c] \in {"add", "go"} /\ pc'[c] # pc[c] =>
                   \A e \in DOMAIN ents :
                      ents'[e].done = ents[e].done /\ ents'[e].own = ents[e].own]_vars
    /\ [](\A e \in DOMAIN ents : ents[e].own => ents[e].done)

\* Start has returned nil for a name whose context Stop or RemoveTask had
\* canceled before: the goroutine of the entry runs with a canceled context.
C29_Witness ==
    \E c \in Callers :
       /\ pc[c] = "ret" /\ op[c].fn = "Start" /\ res[c] = "nil"
       /\ ents[tasks[op[c].name]].own /\ ents[tasks[op[c].name]].done
       /\ ~parentDone
       /\ \E r \in Gs : r.ent = tasks[op[c].name] /\ r.phase = "run" /\ r.kind = "loop"

\* C30: the step in which StopAll cancels leaves the parent context canceled,
\* whatever its wait returns later, and no step undoes that; an AddTask after
\* it creates its entry canceled, and a goroutine launched after it belongs to
\* an entry whose context is canceled.
C30_RootStaysCanceled ==
    [][/\ parentDone => parentDone'
       /\ \A c \in Callers :
             /\ pc[c] = "lock" /\ pc'[c] # "lock" /\ op[c].fn = "StopAll" => parentDone'
             /\ (/\ pc[c] = "lock" /\ pc'[c] # "lock" /\ op[c].fn = "AddTask"
                 /\ parentDone)
                   => ents'[Len(ents) + 1].done /\ tasks'[op'[c].name] = Len(ents) + 1
             /\ pc[c] = "go" /\ pc'[c] # "go" /\ parentDone =>
                   /\ ents'[op[c].ent].done
                   /\ \E k \in Kinds : gs' = gs (+) One(NewGoroutine(op[c].ent, k))]_vars

\* AddTask has returned after StopAll: its new entry is canceled although its
\* own cancel function was never called.
C30_Witness ==
    \E c \in Callers :
       /\ pc[c] = "ret" /\ op[c].fn = "AddTask"
       /\ parentDone
       /\ ents[op[c].ent].done /\ ~ents[op[c].ent].own
       /\ tasks[op[c].name] = op[c].ent

\* The call of the user code is on a WaitGroup that counts its own goroutine:
\* StopAll, or Stop/RemoveTask of the entry the goroutine was launched for.
OwnWait(c) ==
    /\ c = Inside
    /\ op[c].fn \in StopLike
    /\ pc[c] \in {"wgwait", "select", "ret"}
    /\ \E r \in Gs : SelfRunning(r) /\ (op[c].fn = "StopAll" \/ op[c].ent = r.ent)

\* C31: a Stop or RemoveTask of its own task, or a StopAll, called by the user
\* code of a goroutine before its Done calls never gets a successful wait: with
\* timeout >= 0 it returns the timeout error and RemoveTask keeps the entry;
\* with timeout < 0 it stays in wg.Wait() for ever, holding gm.mu, and every
\* call made meanwhile stays at its Lock.
C31_SelfStopNeverSucceeds ==
    /\ [](\A c \in Callers :
            OwnWait(c) =>
               /\ Count(Barrier(c)) > 0
               /\ ~sel[c].done
               /\ pc[c] = "ret" =>
                     /\ op[c].tmo >= 0 /\ op[c].wres = "WaitTimeout"
                     /\ res[c] = "timeout"
                     /\ op[c].fn = "RemoveTask" => tasks[op[c].name] = op[c].ent)
    /\ [][\A c \in Callers :
             OwnWait(c) /\ pc[c] = "wgwait" =>
                /\ pc'[c] = "wgwait" /\ mu' = c
                /\ \A d \in Callers \ {c} : pc[d] = "lock" => pc'[d] = "lock"
                /\ \A d \in Callers \ {c} : pc'[d] \in {"idle", "lock"}]_vars

\* The user code is inside StopAll(-1), which holds gm.mu, and a call made
\* later by a thread outside waits at its Lock.
C31_Witness ==
    /\ pc[Inside] = "wgwait" /\ op[Inside].fn = "StopAll" /\ mu = Inside
    /\ \E r \in Gs : SelfRunning(r)
    /\ \E d \in Callers \ {Inside} : pc[d] = "lock"

\* C32: a Stop, RemoveTask or StopAll with timeout >= 0 whose WaitGroup was
\* zero when the wait began returns nil, and RemoveTask has then deleted the
\* entry.
C32_ZeroCountWaitSucceeds ==
    \A c \in Callers :
       /\ pc[c] = "ret" /\ op[c].fn \in StopLike /\ op[c].wres # "none"
       /\ op[c].tmo >= 0 /\ op[c].cnt0 = 0
       => /\ op[c].wres = "WaitSuccess"
          /\ res[c] = "nil"
          /\ op[c].fn = "RemoveTask" => tasks[op[c].name] = 0

\* C33: WaitCancelWithTimeout returns WaitSuccess only on a canceled context
\* and WaitTimeout only with timeout >= 0 after the timer fired; with
\* timeout < 0 it stays in the receive while the context is not canceled,
\* returns once it is canceled, and returns WaitSuccess.
C33_WaitCancelResult ==
    /\ [](\A c \in Callers :
            pc[c] = "ret" =>
               /\ op[c].wres \in {"WaitSuccess", "WaitTimeout"}
               /\ op[c].wres = "WaitSuccess" => CtxDone(op[c].ent)
               /\ op[c].wres = "WaitTimeout" =>
                     op[c].tmo >= 0 /\ sel[c].timer = "fired"
               /\ op[c].tmo < 0 => op[c].wres = "WaitSuccess")
    /\ [][\A c \in Callers :
             pc[c] = "ctxwait" /\ ~CtxDone(op[c].ent) => pc'[c] = "ctxwait"]_vars
    /\ \A c \in Callers :
          (pc[c] = "ctxwait" /\ CtxDone(op[c].ent)) ~> (pc[c] = "ret")

\* A call with timeout < 0 has returned WaitSuccess on a context that was
\* canceled during the call, while another call on a context still open has
\* returned WaitTimeout.
C33_Witness ==
    \E c, d \in Callers :
       /\ pc[c] = "ret" /\ op[c].tmo < 0 /\ op[c].wres = "WaitSuccess"
       /\ pc[d] = "ret" /\ op[d].wres = "WaitTimeout" /\ ~CtxDone(op[d].ent)

\* C34: in the host, StartAll is called only with "server" registered, StopAll
\* only after a signal was received and with the 10 s timeout, and the logger
\* is finalized only after StopAll has returned; the process is never ended by
\* a panic of the task; and a pending signal, in particular the SIGUSR1 sent
\* by the panic handler or after a fatal server error, leads to StopAll and
\* then to the finalized logger.
C34_HostShutdownOrder ==
    /\ [](/\ op[Main].fn = "StartAll" => host.pc = "StartAll" /\ tasks[Server] # 0
          /\ BagToSet(gs) # {} => tasks[Server] # 0
          /\ host.pc \in {"init", "AddTask", "StartAll"} => ~parentDone
          /\ op[Main].fn = "StopAll" /\ pc[Main] # "lock" =>
                host.pc = "StopAll" /\ op[Main].tmo = LargeTimeout
          /\ host.pc = "exit" => parentDone /\ pc[Main] = "idle" /\ mu = 0
          /\ ~crashed)
    /\ [][host'.pc # host.pc =>
             /\ host'.pc = "recv" =>
                   /\ host.pc = "StartAll"
                   /\ host.sig \in {"SIGINT", "SIGTERM", "SIGUSR1"}
                   /\ host'.got = host.sig
             /\ host'.pc = "StopAll" => host.pc = "recv"
             /\ host'.pc = "exit" => host.pc = "StopAll"]_vars
    /\ (\E r \in Gs : r.phase = "handler") ~> (host.pc \in {"StopAll", "exit"})
    /\ (\E r \in Gs : r.kind = "instant") ~> (host.pc \in {"StopAll", "exit"})
    /\ (host.sig # "none") ~> (host.pc \in {"StopAll", "exit"})
    /\ (host.pc = "StopAll") ~> (host.pc = "exit")

\* server.Run has panicked, the handler has run once, and the main thread is
\* in StopAll, waiting for the goroutine's last Done.
C34_Witness ==
    /\ host.pc = "StopAll" /\ pc[Main] = "select" /\ host.got = "SIGUSR1"
    /\ \E r \in Gs : r.failed /\ r.hcalls = 1 /\ r.phase = "pdone"

====
